---- MODULE Spec2Model ----
(***************************************************************************)
(* Model of the ticket-triage agent loop: TriageAgent.process_ticket and   *)
(* _parse_response (agent.py), the tool registry (tools.py) and the result *)
(* schema (models.py).                                                     *)
(*                                                                         *)
(* Python values are tagged records: a str is [t |-> "str", s |-> ...], a  *)
(* dict is [t |-> "dict", items |-> <<key, value>> pairs in insertion      *)
(* order], a list is [t |-> "list", elems |-> ...].  Text (str contents    *)
(* that the code parses or produces) is a sequence of tokens.              *)
(***************************************************************************)
EXTENDS Integers, Sequences, FiniteSets, TLC

VARIABLES ticket, messages, tool_traces, total_tokens, prompt_tokens,
          completion_tokens, round_num, pc, e, response, call_idx,
          returned, raised, kb_store, request, calls, rate_limits, logs,
          parse_in, parse_ref, parse_out, ref_out,
          inv, heap, kb_global, kb_writes,
          main_pc, queue, console, choices, processed

\* the state of answer parsing applied on its own
parseVars == <<parse_in, parse_ref, parse_out, ref_out>>

\* the state of two process_ticket invocations running side by side
concVars == <<inv, heap, kb_global, kb_writes>>

\* the state of the caller, main
mainVars == <<main_pc, queue, console, choices, processed>>

\* what process_ticket leaves alone
otherVars == <<parseVars, concVars, mainVars>>

vars == <<ticket, messages, tool_traces, total_tokens, prompt_tokens,
          completion_tokens, round_num, pc, e, response, call_idx,
          returned, raised, kb_store, request, calls, rate_limits, logs,
          parseVars, concVars, mainVars>>

(***************************************************************************)
(* Bounds of the model and constants of the program.                       *)
(***************************************************************************)
\* how many rounds of one run the primary provider may answer with a rate limit
MaxRateLimits == 1

\* how many blanks may pad a code fence
MaxPad == 1

\* how many rounds of a side-by-side invocation the model may answer with a
\* tool call
MaxConcRounds == 2

\* how many menu choices the user makes
MaxChoices == 2

\* agent.py:57
MAX_TOOL_ROUNDS == 5

\* the loop goes on for one round more than the budget
RoundsLeftInclusive(done) == done <= MAX_TOOL_ROUNDS

\* agent.py:91, range(MAX_TOOL_ROUNDS) has a next index after `done` rounds
RoundsLeft(done) == done < MAX_TOOL_ROUNDS

\* tools.py:55, n_results of the knowledge-base search
N_RESULTS == 3

\* models.py:47, bounds of priority_score
PRIORITY_MIN == 1
PRIORITY_MAX == 10

(***************************************************************************)
(* Python values.                                                          *)
(***************************************************************************)
\* a str value; s is its text, a sequence of tokens
PyStr(s) == [t |-> "str", s |-> s]
S(tok) == PyStr(<<tok>>)
PyInt(i) == [t |-> "int", i |-> i]
PyBool(b) == [t |-> "bool", b |-> b]
PyNone == [t |-> "None"]
PyDict(items) == [t |-> "dict", items |-> items]
PyList(elems) == [t |-> "list", elems |-> elems]

\* d.keys() of a dict value
Keys(d) == {d.items[i][1] : i \in 1..Len(d.items)}

\* d[k] for a key the dict has
Get(d, k) == LET i == CHOOSE j \in 1..Len(d.items) : d.items[j][1] = k
             IN  d.items[i][2]

\* d.get(k, default)
GetOr(d, k, default) == IF k \in Keys(d) THEN Get(d, k) ELSE default

\* the dict with d[k] = v, for a key the dict has
DictSet(d, k, v) ==
    PyDict([i \in 1..Len(d.items) |->
              IF d.items[i][1] = k THEN <<k, v>> ELSE d.items[i]])

\* the dict without the key k
DictDel(d, k) ==
    LET keep == {i \in 1..Len(d.items) : d.items[i][1] # k}
        nth(n) == CHOOSE i \in keep : Cardinality({j \in keep : j <= i}) = n
    IN  PyDict([n \in 1..Cardinality(keep) |-> d.items[nth(n)]])

RECURSIVE JsonDumps(_)
RECURSIVE DumpItems(_, _)
RECURSIVE DumpElems(_, _)
\* json.dumps(v, ensure_ascii=False): the JSON text of a value, as tokens
JsonDumps(v) ==
    CASE v.t = "str"  -> <<"\"">> \o v.s \o <<"\"">>
      [] v.t = "int"  -> <<ToString(v.i)>>
      [] v.t = "bool" -> <<IF v.b THEN "true" ELSE "false">>
      [] v.t = "None" -> <<"null">>
      [] v.t = "dict" -> <<"{">> \o DumpItems(v.items, 1) \o <<"}">>
      [] v.t = "list" -> <<"[">> \o DumpElems(v.elems, 1) \o <<"]">>

DumpItems(items, i) ==
    IF i > Len(items) THEN <<>>
    ELSE (IF i > 1 THEN <<", ">> ELSE <<>>)
         \o <<"\"", items[i][1], "\"", ": ">> \o JsonDumps(items[i][2])
         \o DumpItems(items, i + 1)

DumpElems(elems, i) ==
    IF i > Len(elems) THEN <<>>
    ELSE (IF i > 1 THEN <<", ">> ELSE <<>>)
         \o JsonDumps(elems[i]) \o DumpElems(elems, i + 1)

(***************************************************************************)
(* Text helpers: str.strip, str.startswith, str.split, str.rsplit.         *)
(***************************************************************************)
Whitespace == {" ", "\n"}
\* the code-fence marker, three backquote characters, as one token
Fence == "FENCE"

RECURSIVE LStrip(_)
LStrip(s) == IF s # <<>> /\ Head(s) \in Whitespace THEN LStrip(Tail(s)) ELSE s

RECURSIVE RStrip(_)
RStrip(s) == IF s # <<>> /\ s[Len(s)] \in Whitespace
             THEN RStrip(SubSeq(s, 1, Len(s) - 1)) ELSE s

Strip(s) == RStrip(LStrip(s))

Contains(s, tok) == \E i \in 1..Len(s) : s[i] = tok

\* s.split(tok, 1)[1]: what follows the first occurrence of tok
AfterFirst(s, tok) ==
    LET i == CHOOSE j \in 1..Len(s) :
                 s[j] = tok /\ \A k \in 1..(j - 1) : s[k] # tok
    IN  SubSeq(s, i + 1, Len(s))

\* s.split(tok, 1)[0]: what precedes the first occurrence of tok
BeforeFirst(s, tok) ==
    IF ~Contains(s, tok) THEN s
    ELSE LET i == CHOOSE j \in 1..Len(s) :
                      s[j] = tok /\ \A k \in 1..(j - 1) : s[k] # tok
         IN  SubSeq(s, 1, i - 1)

\* s.rsplit(tok, 1)[0]: what precedes the last occurrence of tok (s without one)
BeforeLast(s, tok) ==
    IF ~Contains(s, tok) THEN s
    ELSE LET i == CHOOSE j \in 1..Len(s) :
                      s[j] = tok /\ \A k \in (j + 1)..Len(s) : s[k] # tok
         IN  SubSeq(s, 1, i - 1)

(***************************************************************************)
(* Exceptions: the class, str(exception) and the chained __cause__ (a      *)
(* sequence of zero or one exception).                                     *)
(***************************************************************************)
Exc(type, text) == [type |-> type, text |-> text, cause |-> <<>>]
ExcFrom(type, text, cause) == [type |-> type, text |-> text, cause |-> <<cause>>]

\* a record of the logger
LogRecord(level, text) == [level |-> level, text |-> text]

Returns(v) == [raises |-> FALSE, value |-> v]
Raises(x) == [raises |-> TRUE, exc |-> x]

(***************************************************************************)
(* tools.py: the data files, the two tools and the registry.               *)
(***************************************************************************)
\* data/customers.json
Customers ==
    << PyDict(<< <<"email", S("ann@x")>>, <<"plan", S("pro")>> >>),
       PyDict(<< <<"email", S("bob@x")>>, <<"plan", S("legacy")>> >>) >>

\* data/plan_tiers.json
Tiers ==
    PyDict(<< <<"pro", PyDict(<< <<"label", S("Pro")>>,
                                 <<"sla_hours", PyInt(4)>>,
                                 <<"priority", S("high")>> >>)>> >>)

\* the ranked article ids the search backend holds for any query
KbRanking == <<"kb1", "kb2", "kb3", "kb4">>

\* KnowledgeBaseStore.search(query, n_results): the n_results best articles
Search(query, n_results) ==
    PyList([i \in 1..(IF n_results < Len(KbRanking) THEN n_results
                      ELSE Len(KbRanking)) |->
               PyDict(<< <<"id", S(KbRanking[i])>> >>)])

\* _get_kb_store: the store after the call; the constructor may raise
GetKbStore(store, kbFails) ==
    IF store = "None" /\ kbFails THEN "None" ELSE "KnowledgeBaseStore"

\* an f-string field: str(v)
Format(v) == IF v.t = "str" THEN v.s ELSE JsonDumps(v)

fetch_customer_data(email) ==
    LET found == {i \in 1..Len(Customers) : Get(Customers[i], "email") = email}
    IN  IF found = {}
        THEN PyDict(<< <<"error", S("not_found")>>,
                       <<"message", PyStr(<<"No customer found with email: ">>
                                          \o Format(email))>> >>)
        ELSE LET customer == Customers[CHOOSE i \in found :
                                          \A j \in found : i <= j]
                 plan_key == GetOr(customer, "plan", S("free"))
                 tier_info == GetOr(Tiers, plan_key.s[1], PyDict(<<>>))
             IN  PyDict(customer.items \o
                   << <<"plan_details", PyDict(<<
                        <<"label", GetOr(tier_info, "label", plan_key)>>,
                        <<"sla_hours", GetOr(tier_info, "sla_hours", PyNone)>>,
                        <<"priority", GetOr(tier_info, "priority", S("low"))>>,
                        <<"support_channel",
                          GetOr(tier_info, "support_channel", S("email"))>>,
                        <<"features", GetOr(tier_info, "features", PyList(<<>>))>>,
                        <<"auto_escalate",
                          GetOr(tier_info, "auto_escalate", PyBool(FALSE))>> >>)>> >>)

\* query_knowledge_base(query): the constructor or the search may raise
query_knowledge_base(query, kbFails) ==
    IF kbFails THEN Raises(Exc("ChromaError", <<"knowledge base unavailable">>))
    ELSE Returns(Search(query, N_RESULTS))

\* TOOL_DISPATCH.keys()
TOOL_DISPATCH == {"fetch_customer_data", "query_knowledge_base"}

\* the parameter names of a registered tool
Params(tool_name) ==
    IF tool_name = "fetch_customer_data" THEN {"email"} ELSE {"query"}

\* tool_fn(**tool_args) for a registered tool
CallTool(tool_name, tool_args, kbFails) ==
    IF tool_args.t # "dict"
    THEN Raises(Exc("TypeError", <<tool_name, "() argument after ** must be a mapping">>))
    ELSE IF Keys(tool_args) # Params(tool_name)
    THEN Raises(Exc("TypeError", <<tool_name, "() got unexpected or missing arguments">>))
    ELSE IF tool_name = "fetch_customer_data"
    THEN Returns(fetch_customer_data(Get(tool_args, "email")))
    ELSE query_knowledge_base(Get(tool_args, "query"), kbFails)

(***************************************************************************)
(* models.py: the result schema.  A check is <<location, failure>>, the    *)
(* failure "" when the field validates.                                    *)
(***************************************************************************)
UrgencyLiterals == {"critical", "high", "medium", "low"}
SentimentLiterals == {"angry", "frustrated", "neutral", "positive"}
ActionLiterals == {"auto_respond", "route_to_specialist", "escalate_to_human"}

\* a required str field
StrField(d, k) ==
    IF k \notin Keys(d) THEN "missing"
    ELSE IF Get(d, k).t # "str" THEN "string_type" ELSE ""

\* a required Literal[...] field: one token, one of the declared values
LiteralField(d, k, allowed) ==
    IF k \notin Keys(d) THEN "missing"
    ELSE IF Get(d, k).t = "str" /\ Len(Get(d, k).s) = 1 /\ Get(d, k).s[1] \in allowed
    THEN "" ELSE "literal_error"

\* a required int field whose Field(ge=lo, le=hi) is not enforced
IntFieldUnbounded(d, k, lo, hi) ==
    IF k \notin Keys(d) THEN "missing"
    ELSE IF Get(d, k).t # "int" THEN "int_type" ELSE ""

\* a required int field with Field(ge=lo, le=hi)
IntField(d, k, lo, hi) ==
    IF k \notin Keys(d) THEN "missing"
    ELSE IF Get(d, k).t # "int" THEN "int_type"
    ELSE IF Get(d, k).i < lo THEN "greater_than_equal"
    ELSE IF Get(d, k).i > hi THEN "less_than_equal" ELSE ""

\* an Optional[str] field with default None
OptStrField(d, k) ==
    IF k \notin Keys(d) \/ Get(d, k).t \in {"None", "str"} THEN "" ELSE "string_type"

\* a nested model field: present and a dict
NestedField(d, k) ==
    IF k \notin Keys(d) THEN "missing"
    ELSE IF Get(d, k).t # "dict" THEN "model_type" ELSE ""

TicketAnalysisChecks(d) ==
    << <<"analysis.urgency", LiteralField(d, "urgency", UrgencyLiterals)>>,
       <<"analysis.sentiment", LiteralField(d, "sentiment", SentimentLiterals)>>,
       <<"analysis.issue_type", StrField(d, "issue_type")>>,
       <<"analysis.product_area", StrField(d, "product_area")>>,
       <<"analysis.language", StrField(d, "language")>>,
       <<"analysis.summary", StrField(d, "summary")>> >>

SuggestedActionChecks(d) ==
    << <<"action.action", LiteralField(d, "action", ActionLiterals)>>,
       <<"action.suggested_reply", StrField(d, "suggested_reply")>>,
       <<"action.reason", StrField(d, "reason")>>,
       <<"action.priority_score",
         IntField(d, "priority_score", PRIORITY_MIN, PRIORITY_MAX)>>,
       <<"action.auto_response", OptStrField(d, "auto_response")>>,
       <<"action.routing_department", OptStrField(d, "routing_department")>>,
       <<"action.escalation_notes", OptStrField(d, "escalation_notes")>> >>

\* TriageResult.coerce_customer_context (mode="before")
coerce_customer_context(v) == IF v.t = "dict" THEN PyStr(JsonDumps(v)) ELSE v

\* kb_articles_used: list[str] with default_factory=list
KbArticlesField(d) ==
    IF "kb_articles_used" \notin Keys(d) THEN ""
    ELSE IF Get(d, "kb_articles_used").t # "list" THEN "list_type"
    ELSE IF \E i \in 1..Len(Get(d, "kb_articles_used").elems) :
                Get(d, "kb_articles_used").elems[i].t # "str"
    THEN "string_type" ELSE ""

\* the data with the before-validator of customer_context applied
Coerced(d) ==
    PyDict([i \in 1..Len(d.items) |->
              IF d.items[i][1] = "customer_context"
              THEN <<"customer_context", coerce_customer_context(d.items[i][2])>>
              ELSE d.items[i]])

TriageResultChecks(d) ==
    << <<"ticket_id", StrField(d, "ticket_id")>> >>
    \o (IF NestedField(d, "analysis") = ""
        THEN TicketAnalysisChecks(Get(d, "analysis"))
        ELSE << <<"analysis", NestedField(d, "analysis")>> >>)
    \o (IF NestedField(d, "action") = ""
        THEN SuggestedActionChecks(Get(d, "action"))
        ELSE << <<"action", NestedField(d, "action")>> >>)
    \o << <<"customer_context", StrField(Coerced(d), "customer_context")>>,
          <<"kb_articles_used", KbArticlesField(d)>> >>

RECURSIVE Failures(_)
\* the failed checks, in field order, as the text of the ValidationError
Failures(checks) ==
    IF checks = <<>> THEN <<>>
    ELSE (IF Head(checks)[2] = "" THEN <<>> ELSE Head(checks))
         \o Failures(Tail(checks))

\* the validated object of a dict whose checks all pass
TriageResultOf(d) ==
    LET a == Get(d, "analysis")
        b == Get(d, "action")
    IN  [ticket_id |-> Get(d, "ticket_id").s,
         analysis |-> [urgency |-> Get(a, "urgency").s,
                       sentiment |-> Get(a, "sentiment").s,
                       issue_type |-> Get(a, "issue_type").s,
                       product_area |-> Get(a, "product_area").s,
                       language |-> Get(a, "language").s,
                       summary |-> Get(a, "summary").s],
         action |-> [action |-> Get(b, "action").s,
                     suggested_reply |-> Get(b, "suggested_reply").s,
                     reason |-> Get(b, "reason").s,
                     priority_score |-> Get(b, "priority_score").i,
                     auto_response |-> GetOr(b, "auto_response", PyNone),
                     routing_department |-> GetOr(b, "routing_department", PyNone),
                     escalation_notes |-> GetOr(b, "escalation_notes", PyNone)],
         customer_context |-> Get(Coerced(d), "customer_context").s,
         kb_articles_used |-> GetOr(d, "kb_articles_used", PyList(<<>>)).elems]

\* TriageResult.model_validate(data)
model_validate(data) ==
    IF data.t # "dict"
    THEN Raises(Exc("ValidationError", <<"TriageResult", "model_type">>))
    ELSE IF Failures(TriageResultChecks(data)) # <<>>
    THEN Raises(Exc("ValidationError",
                    <<"TriageResult">> \o Failures(TriageResultChecks(data))))
    ELSE Returns(TriageResultOf(data))

(***************************************************************************)
(* The inputs: tickets, and what the reasoning model can answer.           *)
(***************************************************************************)
Tickets ==
    { [ticket_id |-> "T1", customer_email |-> "ann@x", subject |-> "refund",
       messages |-> <<[timestamp |-> "09:00", content |-> "charged twice"]>>],
      [ticket_id |-> "T2", customer_email |-> "zed@x",
       messages |-> <<[content |-> "site is down"]>>] }

\* a final payload with the given ticket_id, priority_score and customer_context
Payload(tid, score, ctx) ==
    PyDict(<< <<"ticket_id", S(tid)>>,
              <<"analysis", PyDict(<< <<"urgency", S("high")>>,
                                      <<"sentiment", S("angry")>>,
                                      <<"issue_type", S("billing")>>,
                                      <<"product_area", S("payments")>>,
                                      <<"language", S("en")>>,
                                      <<"summary", S("double charge")>> >>)>>,
              <<"action", PyDict(<< <<"action", S("escalate_to_human")>>,
                                    <<"suggested_reply", S("sorry")>>,
                                    <<"reason", S("sla")>>,
                                    <<"priority_score", PyInt(score)>> >>)>>,
              <<"customer_context", ctx>>,
              <<"kb_articles_used", PyList(<<S("kb1")>>)>> >>)

CtxDict == PyDict(<< <<"plan", S("pro")>> >>)

\* a payload with one field of a nested model replaced, or removed
SetIn(p, model, k, v) == DictSet(p, model, DictSet(Get(p, model), k, v))
DelIn(p, model, k) == DictSet(p, model, DictDel(Get(p, model), k))

GoodPayload == Payload("T1", 7, S("pro plan"))

\* the payloads the model can send as its final answer
Payloads ==
    { Payload("T1", 7, S("pro plan")), Payload("T2", 1, CtxDict),
      Payload("T1", 11, S("pro plan")),
      SetIn(GoodPayload, "action", "action", S("close_ticket")),
      DelIn(GoodPayload, "analysis", "summary") }

\* the decoded argument payloads the model can send with a tool call
ArgValues ==
    { PyDict(<< <<"email", S("ann@x")>> >>), PyDict(<< <<"email", S("zed@x")>> >>),
      PyDict(<< <<"query", S("refund")>> >>), PyList(<<S("ann@x")>>) }

\* payloads that break one constraint of the schema
InvalidPayloads ==
    { Payload("T1", 11, S("pro plan")), Payload("T1", 0, S("pro plan")),
      SetIn(GoodPayload, "analysis", "urgency", S("HIGH")),
      SetIn(GoodPayload, "analysis", "sentiment", S("sad")),
      SetIn(GoodPayload, "action", "action", S("close_ticket")),
      DelIn(GoodPayload, "analysis", "summary"),
      DelIn(GoodPayload, "action", "suggested_reply"),
      DictDel(GoodPayload, "ticket_id"),
      DictDel(GoodPayload, "customer_context"),
      DictDel(GoodPayload, "action") }

\* valid payloads with optional fields absent or null, and with a code fence
\* inside a string
ValidPayloads ==
    { GoodPayload, Payload("T2", 1, CtxDict), Payload("T1", 10, S("pro plan")),
      Payload("T1", 7, PyStr(<<"see", " ", Fence, " ", Fence>>)),
      DictDel(GoodPayload, "kb_articles_used"),
      SetIn(GoodPayload, "action", "reason", S("literal fence FENCE")) }

ToolCall(id, name, arguments) == [id |-> id, name |-> name, arguments |-> arguments]

Args(v) == JsonDumps(v)

\* the tool-call lists of one response
Batches ==
    { <<ToolCall("call_a", "fetch_customer_data", Args(PyDict(<< <<"email", S("zed@x")>> >>)))>>,
      <<ToolCall("call_c", "fetch_customer_data", Args(PyDict(<< <<"email", S("ann@x")>> >>))),
        ToolCall("call_e", "delete_account", Args(PyList(<<S("ann@x")>>))),
        ToolCall("call_d", "query_knowledge_base", Args(PyDict(<< <<"query", S("refund")>> >>)))>>,
      <<ToolCall("call_f", "fetch_customer_data", Args(PyDict(<< <<"query", S("refund")>> >>))),
        ToolCall("call_g", "fetch_customer_data", <<"{", "\"", "email">>),
        ToolCall("call_h", "query_knowledge_base", Args(PyDict(<< <<"query", S("refund")>> >>)))>> }

NoUsage == [t |-> "None"]
Usage(p, c, n) == [t |-> "CompletionUsage", prompt_tokens |-> p,
                   completion_tokens |-> c, total_tokens |-> n]

\* the usage the provider reports with a tool-call list
BatchUsage(batch) ==
    CASE batch[1].id = "call_a" -> NoUsage
      [] batch[1].id = "call_c" -> Usage(5, 2, 9)
      [] batch[1].id = "call_f" -> Usage(1, 1, 2)

Response(finish_reason, content, tool_calls, usage) ==
    [finish_reason |-> finish_reason,
     message |-> [role |-> "assistant", content |-> content, tool_calls |-> tool_calls],
     usage |-> usage]

\* the texts of a final turn
FinalContents ==
    {PyStr(JsonDumps(p)) : p \in Payloads}
    \cup { PyNone, PyStr(<<" ", "\n">>), PyStr(<<"I", "cannot", "help">>) }

\* the usage the provider reports with a final turn
FinalUsage(content) ==
    IF content = PyStr(JsonDumps(Payload("T2", 1, CtxDict)))
    THEN NoUsage ELSE Usage(7, 3, 10)

\* choices[0] and usage of the responses a provider can return
Responses ==
    {Response("tool_calls", PyNone, b, BatchUsage(b)) : b \in Batches}
    \cup {Response("stop", c, <<>>, FinalUsage(c)) : c \in FinalContents}
    \cup { Response("stop", PyStr(JsonDumps(Payload("T1", 7, S("pro plan")))),
                    <<ToolCall("call_a", "fetch_customer_data",
                               Args(PyDict(<< <<"email", S("ann@x")>> >>)))>>,
                    Usage(2, 2, 4)),
           Response("length", PyStr(<<"{", "\"", "ticket_id">>), <<>>, Usage(6, 8, 14)) }

(***************************************************************************)
(* agent.py: _format_ticket and _parse_response.                           *)
(***************************************************************************)
\* the values whose JSON text the model can send
JsonValues == Payloads \cup ValidPayloads \cup InvalidPayloads \cup ArgValues

\* the JSON text of each of them
JsonTexts == [v \in JsonValues |-> JsonDumps(v)]

RECURSIVE Squeeze(_)
\* a JSON text without the whitespace between its tokens (outside strings)
Squeeze(text) ==
    LET blanks == {i \in 1..Len(text) : text[i] \in Whitespace}
        between == {i \in blanks :
                      Cardinality({q \in 1..i : text[q] = "\""}) % 2 = 0}
    IN  IF between = {} THEN text
        ELSE LET i == CHOOSE k \in between : \A j \in between : k <= j
             IN  SubSeq(text, 1, i - 1) \o Squeeze(SubSeq(text, i + 1, Len(text)))

\* json.loads: the value of a JSON text, insignificant whitespace allowed
JsonLoads(text) ==
    LET tokens == Squeeze(text)
        decoded == {v \in JsonValues : JsonTexts[v] = tokens}
    IN  IF decoded = {}
        THEN Raises(Exc("JSONDecodeError", <<"Expecting value">>))
        ELSE Returns(CHOOSE v \in decoded : TRUE)

\* _format_ticket(ticket): the lines of the user turn
FormatTicket(tk) ==
    << "## Support Ticket: ", tk.ticket_id,
       "**Customer Email:** ", tk.customer_email,
       "**Subject:** ", IF "subject" \in DOMAIN tk THEN tk.subject ELSE "N/A",
       "### Messages (oldest to newest):" >>
    \o [i \in 1..Len(tk.messages) |->
          <<IF "timestamp" \in DOMAIN tk.messages[i]
            THEN tk.messages[i].timestamp ELSE "unknown",
            IF "content" \in DOMAIN tk.messages[i]
            THEN tk.messages[i].content ELSE "">>]

\* the fence stripping of _parse_response, lines 203-207
StripFences(content) ==
    LET json_str == Strip(content)
    IN  IF json_str # <<>> /\ Head(json_str) = Fence
        THEN Strip(BeforeLast(IF Contains(json_str, "\n")
                              THEN AfterFirst(json_str, "\n")
                              ELSE Tail(json_str), Fence))
        ELSE json_str

\* _parse_response(content, ticket_id); content is None or a str
ParseResponse(content, ticket_id) ==
    IF content.t = "None" \/ content.s = <<>>
    THEN Raises(Exc("ValueError", <<"Empty response from LLM for ticket ", ticket_id>>))
    ELSE LET loaded == JsonLoads(StripFences(content.s))
         IN  IF loaded.raises
             THEN Raises(Exc("ValueError",
                             <<"LLM returned invalid JSON for ticket ", ticket_id, ": ">>
                             \o loaded.exc.text))
             ELSE model_validate(loaded.value)

\* the records of a _parse_response that does not log the raw response
ParseLogsNoRaw(content) ==
    IF content.t = "None" \/ content.s = <<>> THEN <<>>
    ELSE LET loaded == JsonLoads(StripFences(content.s))
         IN  IF loaded.raises
             THEN << LogRecord("error", <<"Failed to parse LLM response as JSON: ">>
                                        \o loaded.exc.text) >>
             ELSE <<>>

\* the records _parse_response logs, lines 212-213
ParseLogs(content) ==
    IF content.t = "None" \/ content.s = <<>> THEN <<>>
    ELSE LET loaded == JsonLoads(StripFences(content.s))
         IN  IF loaded.raises
             THEN << LogRecord("error", <<"Failed to parse LLM response as JSON: ">>
                                        \o loaded.exc.text),
                     LogRecord("error", <<"Raw response:", "\n">> \o content.s) >>
             ELSE <<>>

(***************************************************************************)
(* agent.py: process_ticket.                                               *)
(***************************************************************************)
NoResponse == [t |-> "None"]
NoException == [t |-> "None"]
NoRequest == [t |-> "None"]

\* TOOL_SCHEMAS: the names of the advertised tools
TOOL_SCHEMAS == <<"fetch_customer_data", "query_knowledge_base">>

\* a request that is sent the last two turns only
PrimaryRequestWindow(msgs) ==
    [provider |-> "primary", model |-> "OPENAI_MODEL",
     messages |-> SubSeq(msgs, Len(msgs) - 1, Len(msgs)),
     tools |-> TOOL_SCHEMAS, tool_choice |-> "auto",
     parallel_tool_calls |-> "default"]

\* the request of lines 94-99
PrimaryRequest(msgs) ==
    [provider |-> "primary", model |-> "OPENAI_MODEL", messages |-> msgs,
     tools |-> TOOL_SCHEMAS, tool_choice |-> "auto",
     parallel_tool_calls |-> "default"]

\* the fallback request without parallel_tool_calls=False
FallbackRequestParallel(msgs) ==
    [provider |-> "fallback", model |-> "llama-3.1-8b-instant", messages |-> msgs,
     tools |-> TOOL_SCHEMAS, tool_choice |-> "auto",
     parallel_tool_calls |-> "default"]

\* the request of lines 105-112
FallbackRequest(msgs) ==
    [provider |-> "fallback", model |-> "llama-3.1-8b-instant", messages |-> msgs,
     tools |-> TOOL_SCHEMAS, tool_choice |-> "auto",
     parallel_tool_calls |-> "False"]

\* the error of line 116 raised without "from fallback_error"
FallbackFailedUnchained(err, fallback_error) ==
    Exc("RuntimeError", <<"Rate limit reached and fallback failed: ">> \o err.text)

\* line 116: the error raised when the fallback fails too
FallbackFailed(err, fallback_error) ==
    ExcFrom("RuntimeError",
            <<"Rate limit reached and fallback failed: ">> \o err.text,
            fallback_error)

\* a counter assigned with = instead of +=
AccumulateOverwrite(counter, usage, amount) ==
    IF usage.t = "None" THEN counter ELSE amount

\* lines 119-122, for one counter
Accumulate(counter, usage, amount) ==
    IF usage.t = "None" THEN counter ELSE counter + amount

\* line 127
IsFinal(choice) ==
    choice.finish_reason = "stop" \/ choice.message.tool_calls = <<>>

\* the 0-based loop index reported as the number of rounds
RoundsZeroBased(n) == n

\* line 134
Rounds(n) == n + 1

\* lines 172-174
RoundsExceeded(tk) ==
    Exc("RuntimeError", <<"Agent exceeded ", ToString(MAX_TOOL_ROUNDS),
                          " tool rounds for ticket ", tk.ticket_id>>)

\* the dispatch without the try/except of lines 153-157
ExecuteToolCallUncaught(tool_call, kbFails) ==
    LET loaded == JsonLoads(tool_call.arguments)
    IN  IF loaded.raises THEN loaded
        ELSE IF tool_call.name \notin TOOL_DISPATCH
        THEN Returns([tool_args |-> loaded.value,
                      tool_result |-> PyDict(<< <<"error",
                          PyStr(<<"Unknown tool: ", tool_call.name>>)>> >>)])
        ELSE LET called == CallTool(tool_call.name, loaded.value, kbFails)
             IN  IF called.raises THEN called
                 ELSE Returns([tool_args |-> loaded.value,
                               tool_result |-> called.value])

\* lines 145-157: the decoded arguments and the result of one tool call
ExecuteToolCall(tool_call, kbFails) ==
    LET loaded == JsonLoads(tool_call.arguments)
    IN  IF loaded.raises THEN loaded
        ELSE IF tool_call.name \notin TOOL_DISPATCH
        THEN Returns([tool_args |-> loaded.value,
                      tool_result |-> PyDict(<< <<"error",
                          PyStr(<<"Unknown tool: ", tool_call.name>>)>> >>)])
        ELSE LET called == CallTool(tool_call.name, loaded.value, kbFails)
             IN  Returns([tool_args |-> loaded.value,
                          tool_result |->
                              IF called.raises
                              THEN PyDict(<< <<"error", PyStr(called.exc.text)>> >>)
                              ELSE called.value])

\* the records one dispatched tool call logs: agent.py:156, tools.py:56
ToolLogs(tool_call, kbFails) ==
    LET loaded == JsonLoads(tool_call.arguments)
    IN  IF loaded.raises \/ tool_call.name \notin TOOL_DISPATCH THEN <<>>
        ELSE LET called == CallTool(tool_call.name, loaded.value, kbFails)
             IN  IF called.raises
                 THEN <<LogRecord("error", <<"Tool ", tool_call.name, " failed: ">>
                                           \o called.exc.text)>>
                 ELSE IF tool_call.name = "query_knowledge_base"
                 THEN <<LogRecord("info", <<"KB search for '">>
                                          \o Format(Get(loaded.value, "query"))
                                          \o <<"' returned ",
                                               ToString(Len(called.value.elems)),
                                               " results.">>)>>
                 ELSE <<>>

\* a trace entry that records the arguments as the result
ToolTraceOfArgs(tool_name, tool_args, tool_result) ==
    [tool_name |-> tool_name, arguments |-> tool_args, result |-> tool_args]

\* lines 159-163
ToolTrace(tool_name, tool_args, tool_result) ==
    [tool_name |-> tool_name, arguments |-> tool_args, result |-> tool_result]

\* the tool-result turn tagged with the tool's name instead of the call's id
ToolMessageByName(tool_call, tool_result) ==
    [role |-> "tool", tool_call_id |-> tool_call.name,
     content |-> JsonDumps(tool_result)]

\* lines 166-170
ToolMessage(tool_call, tool_result) ==
    [role |-> "tool", tool_call_id |-> tool_call.id,
     content |-> JsonDumps(tool_result)]

\* whether the call reaches the knowledge-base store (tools.py:54)
UsesKbStore(tool_call) ==
    /\ tool_call.name = "query_knowledge_base"
    /\ ~JsonLoads(tool_call.arguments).raises
    /\ JsonLoads(tool_call.arguments).value.t = "dict"
    /\ Keys(JsonLoads(tool_call.arguments).value) = Params(tool_call.name)

\* no outcome of answer parsing yet
NotParsed == [raises |-> FALSE, value |-> PyNone]

LoopInit ==
    /\ ticket \in Tickets
    /\ messages = << [role |-> "system", content |-> <<"system_prompt.txt">>],
                     [role |-> "user", content |-> FormatTicket(ticket)] >>
    /\ tool_traces = <<>>
    /\ total_tokens = 0
    /\ prompt_tokens = 0
    /\ completion_tokens = 0
    /\ round_num = 0
    /\ pc = "call_primary"
    /\ e = NoException
    /\ response = NoResponse
    /\ call_idx = 0
    /\ returned = NoResponse
    /\ raised = NoException
    /\ kb_store = "None"
    /\ request = NoRequest
    /\ calls = <<>>
    /\ rate_limits = 0
    /\ logs = <<>>
    /\ parse_out = NotParsed
    /\ ref_out = NotParsed

\* nothing is being parsed on its own
ParseIdle == parse_in = PyNone /\ parse_ref = PyNone

\* no invocations run side by side
ConcIdle == inv = <<>> /\ heap = <<>> /\ kb_global = 0 /\ kb_writes = <<>>

\* no caller
MainIdle ==
    /\ main_pc = "none"
    /\ queue = <<>>
    /\ console = <<>>
    /\ choices = <<>>
    /\ processed = <<>>

Init == LoopInit /\ ParseIdle /\ ConcIdle /\ MainIdle

\* the final turn of the model is appended to the conversation too
HandleResponseKeepsFinalTurn(resp) ==
    LET total == Accumulate(total_tokens, resp.usage, resp.usage.total_tokens)
        prompt == Accumulate(prompt_tokens, resp.usage, resp.usage.prompt_tokens)
        completion == Accumulate(completion_tokens, resp.usage,
                                 resp.usage.completion_tokens)
    IN  /\ total_tokens' = total
        /\ prompt_tokens' = prompt
        /\ completion_tokens' = completion
        /\ response' = resp
        /\ IF IsFinal(resp)
           THEN LET parsed == ParseResponse(resp.message.content, ticket.ticket_id)
                IN  /\ IF parsed.raises
                       THEN /\ pc' = "raised"
                            /\ raised' = parsed.exc
                            /\ returned' = returned
                       ELSE /\ pc' = "returned"
                            /\ returned' = [result |-> parsed.value,
                                            tool_traces |-> tool_traces,
                                            rounds |-> Rounds(round_num),
                                            total_tokens |-> total,
                                            prompt_tokens |-> prompt,
                                            completion_tokens |-> completion]
                            /\ raised' = raised
                    /\ logs' = logs \o ParseLogs(resp.message.content)
                    /\ messages' = Append(messages, resp.message)
                    /\ UNCHANGED call_idx
           ELSE /\ messages' = Append(messages, resp.message)
                /\ logs' = logs
                /\ pc' = "dispatch"
                /\ call_idx' = 1
                /\ UNCHANGED <<returned, raised>>

\* lines 118-141: what follows a provider's response
HandleResponse(resp) ==
    LET total == Accumulate(total_tokens, resp.usage, resp.usage.total_tokens)
        prompt == Accumulate(prompt_tokens, resp.usage, resp.usage.prompt_tokens)
        completion == Accumulate(completion_tokens, resp.usage,
                                 resp.usage.completion_tokens)
    IN  /\ total_tokens' = total
        /\ prompt_tokens' = prompt
        /\ completion_tokens' = completion
        /\ response' = resp
        /\ IF IsFinal(resp)
           THEN LET parsed == ParseResponse(resp.message.content, ticket.ticket_id)
                IN  /\ IF parsed.raises
                       THEN /\ pc' = "raised"
                            /\ raised' = parsed.exc
                            /\ returned' = returned
                       ELSE /\ pc' = "returned"
                            /\ returned' = [result |-> parsed.value,
                                            tool_traces |-> tool_traces,
                                            rounds |-> Rounds(round_num),
                                            total_tokens |-> total,
                                            prompt_tokens |-> prompt,
                                            completion_tokens |-> completion]
                            /\ raised' = raised
                    /\ logs' = logs \o ParseLogs(resp.message.content)
                    /\ UNCHANGED <<messages, call_idx>>
           ELSE /\ messages' = Append(messages, resp.message)
                /\ logs' = logs
                /\ pc' = "dispatch"
                /\ call_idx' = 1
                /\ UNCHANGED <<returned, raised>>

\* one entry of the history of provider calls
Call(provider, outcome, resp, err) ==
    [round |-> round_num, provider |-> provider, outcome |-> outcome,
     error |-> err, usage |-> resp.usage, finish_reason |-> resp.finish_reason,
     requested |-> Len(resp.message.tool_calls)]

NoAnswer == Response("", PyNone, <<>>, NoUsage)

\* lines 94-99: the primary provider answers
PrimaryResponds ==
    /\ pc = "call_primary"
    /\ request' = PrimaryRequest(messages)
    /\ \E resp \in Responses :
          /\ HandleResponse(resp)
          /\ calls' = Append(calls, Call("primary", "ok", resp, NoException))
    /\ UNCHANGED <<ticket, tool_traces, round_num, e, kb_store, rate_limits>>
    /\ UNCHANGED otherVars

\* line 100: the primary provider raises RateLimitError
PrimaryRateLimited ==
    /\ pc = "call_primary"
    /\ rate_limits < MaxRateLimits
    /\ request' = PrimaryRequest(messages)
    /\ e' = Exc("RateLimitError", <<"429 primary quota">>)
    /\ pc' = "call_fallback"
    /\ rate_limits' = rate_limits + 1
    /\ calls' = Append(calls, Call("primary", "rate_limit", NoAnswer, e'))
    /\ logs' = Append(logs, LogRecord("warning",
                  <<"OpenAI Rate Limit hit: ">> \o e'.text
                  \o <<". Switching to fallback provider (Groq).">>))
    /\ UNCHANGED <<ticket, messages, tool_traces, total_tokens, prompt_tokens,
                   completion_tokens, round_num, response, call_idx, returned,
                   raised, kb_store>>
    /\ UNCHANGED otherVars

\* another exception of the primary provider handled like a rate limit
PrimaryFailsFallsBack ==
    /\ pc = "call_primary"
    /\ request' = PrimaryRequest(messages)
    /\ pc' = "call_fallback"
    /\ e' = Exc("APIConnectionError", <<"Connection error.">>)
    /\ calls' = Append(calls, Call("primary", "error", NoAnswer, e'))
    /\ UNCHANGED <<ticket, messages, tool_traces, total_tokens, prompt_tokens,
                   completion_tokens, round_num, raised, response, call_idx,
                   returned, kb_store, rate_limits, logs>>
    /\ UNCHANGED otherVars

\* lines 94-99: the primary provider raises another exception, which propagates
PrimaryFails ==
    /\ pc = "call_primary"
    /\ request' = PrimaryRequest(messages)
    /\ pc' = "raised"
    /\ raised' = Exc("APIConnectionError", <<"Connection error.">>)
    /\ calls' = Append(calls, Call("primary", "error", NoAnswer, raised'))
    /\ UNCHANGED <<ticket, messages, tool_traces, total_tokens, prompt_tokens,
                   completion_tokens, round_num, e, response, call_idx, returned,
                   kb_store, rate_limits, logs>>
    /\ UNCHANGED otherVars

\* lines 103-112: the fallback provider answers
FallbackResponds ==
    /\ pc = "call_fallback"
    /\ request' = FallbackRequest(messages)
    /\ \E resp \in Responses :
          /\ HandleResponse(resp)
          /\ calls' = Append(calls, Call("fallback", "ok", resp, NoException))
    /\ UNCHANGED <<ticket, tool_traces, round_num, e, kb_store, rate_limits>>
    /\ UNCHANGED otherVars

\* lines 113-116: the fallback provider raises
FallbackFails ==
    /\ pc = "call_fallback"
    /\ request' = FallbackRequest(messages)
    /\ \E fallback_error \in { Exc("RateLimitError", <<"429 fallback quota">>),
                               Exc("APITimeoutError", <<"Request timed out.">>) } :
          /\ raised' = FallbackFailed(e, fallback_error)
          /\ calls' = Append(calls, Call("fallback", "error", NoAnswer, fallback_error))
          /\ logs' = Append(logs, LogRecord("error",
                        <<"Fallback provider failed: ">> \o fallback_error.text))
    /\ pc' = "raised"
    /\ UNCHANGED <<ticket, messages, tool_traces, total_tokens, prompt_tokens,
                   completion_tokens, round_num, e, response, call_idx, returned,
                   kb_store, rate_limits>>
    /\ UNCHANGED otherVars

\* lines 144-170: one iteration of the loop over the tool calls, and after the
\* last one the head of the round loop (line 91) or the raise of line 172
DispatchToolCall ==
    /\ pc = "dispatch"
    /\ LET tool_call == response.message.tool_calls[call_idx]
       IN  \E kbFails \in (IF UsesKbStore(tool_call) THEN BOOLEAN ELSE {FALSE}) :
           LET executed == ExecuteToolCall(tool_call, kbFails)
           IN  IF executed.raises
               THEN /\ pc' = "raised"
                    /\ raised' = executed.exc
                    /\ UNCHANGED <<messages, tool_traces, round_num, call_idx,
                                   kb_store, logs>>
               ELSE /\ tool_traces' = Append(tool_traces,
                           ToolTrace(tool_call.name, executed.value.tool_args,
                                     executed.value.tool_result))
                    /\ messages' = Append(messages,
                           ToolMessage(tool_call, executed.value.tool_result))
                    /\ logs' = logs \o ToolLogs(tool_call, kbFails)
                    /\ kb_store' = IF UsesKbStore(tool_call)
                                   THEN GetKbStore(kb_store, kbFails) ELSE kb_store
                    /\ IF call_idx < Len(response.message.tool_calls)
                       THEN /\ call_idx' = call_idx + 1
                            /\ UNCHANGED <<round_num, pc, raised>>
                       ELSE /\ call_idx' = call_idx
                            /\ round_num' = round_num + 1
                            /\ IF RoundsLeft(round_num + 1)
                               THEN pc' = "call_primary" /\ raised' = raised
                               ELSE /\ pc' = "raised"
                                    /\ raised' = RoundsExceeded(ticket)
    /\ UNCHANGED <<ticket, total_tokens, prompt_tokens, completion_tokens, e,
                   response, returned, request, calls, rate_limits>>
    /\ UNCHANGED otherVars

Next ==
    \/ PrimaryResponds
    \/ PrimaryRateLimited
    \/ PrimaryFails
    \/ FallbackResponds
    \/ FallbackFails
    \/ DispatchToolCall

Spec == Init /\ [][Next]_vars

(***************************************************************************)
(* agent.py: _parse_response on its own, over a wider family of final      *)
(* answers: bare and fenced, compact and multi-line, valid and invalid.    *)
(***************************************************************************)
RECURSIVE Pad(_)
Pad(n) == IF n = 0 THEN <<>> ELSE <<" ">> \o Pad(n - 1)

\* the text laid out on several lines
Pretty(text) ==
    <<Head(text), "\n", " ">> \o SubSeq(text, 2, Len(text) - 1)
    \o <<"\n", text[Len(text)]>>

\* texts of JSON payloads
JsonBodies ==
    {JsonDumps(p) : p \in ValidPayloads \cup InvalidPayloads}
    \cup {Pretty(JsonDumps(p)) : p \in ValidPayloads}

\* texts that are no JSON
ProseBodies == { <<"I", "cannot", "help">>, <<"{", "\"", "ticket_id">> }

\* an opening fence line, with or without a language tag
Openers ==
    {Pad(n) \o <<Fence>> \o lang \o <<"\n">> :
        n \in 0..MaxPad, lang \in {<<>>, <<"json">>}}

\* a closing fence marker
Closers ==
    {<<Fence>>} \cup {<<"\n", Fence>> \o Pad(n) : n \in 0..MaxPad}
    \cup {<<"\n", Fence, "\n">>}

\* contents without any text
BlankContents ==
    {PyNone, PyStr(<<>>)} \cup {PyStr(Pad(n) \o ws) : n \in 1..MaxPad + 1,
                                ws \in {<<>>, <<"\n">>}}

\* a final content, and the content it wraps
ParseInputs ==
    {[content |-> c, plain |-> c] : c \in BlankContents}
    \cup {[content |-> PyStr(b), plain |-> PyStr(b)] :
             b \in JsonBodies \cup ProseBodies}
    \cup {[content |-> PyStr(op \o b \o cl), plain |-> PyStr(b)] :
             b \in JsonBodies \cup ProseBodies, op \in Openers, cl \in Closers}

ParseInit ==
    /\ LoopInit
    /\ ConcIdle
    /\ MainIdle
    /\ \E input \in ParseInputs :
          /\ parse_in = input.content
          /\ parse_ref = input.plain

\* self._parse_response(choice.message.content, ticket["ticket_id"])
ParseContent ==
    /\ parse_out = NotParsed
    /\ parse_out' = ParseResponse(parse_in, ticket.ticket_id)
    /\ logs' = logs \o ParseLogs(parse_in)
    /\ UNCHANGED <<ticket, messages, tool_traces, total_tokens, prompt_tokens,
                   completion_tokens, round_num, pc, e, response, call_idx,
                   returned, raised, kb_store, request, calls, rate_limits,
                   parse_in, parse_ref, ref_out, concVars, mainVars>>

\* the same call on the content without its fences
ParseUnwrapped ==
    /\ ref_out = NotParsed
    /\ ref_out' = ParseResponse(parse_ref, ticket.ticket_id)
    /\ UNCHANGED <<ticket, messages, tool_traces, total_tokens, prompt_tokens,
                   completion_tokens, round_num, pc, e, response, call_idx,
                   returned, raised, kb_store, request, calls, rate_limits,
                   logs, parse_in, parse_ref, parse_out, concVars, mainVars>>

ParseNext == ParseContent \/ ParseUnwrapped

ParseSpec == ParseInit /\ [][ParseNext]_vars

(***************************************************************************)
(* Two process_ticket invocations on one agent, running side by side, as   *)
(* in two threads: each step of one is atomic, the steps of the two        *)
(* interleave.  Python lists are objects on a heap, named by reference;    *)
(* every element carries the invocation that appended it.                  *)
(***************************************************************************)
Invocations == {1, 2}

\* the variables of process_ticket
loopVars == <<ticket, messages, tool_traces, total_tokens, prompt_tokens,
              completion_tokens, round_num, pc, e, response, call_idx,
              returned, raised, kb_store, request, calls, rate_limits, logs>>

\* a new list object: the next free reference
NewList(h) == Len(h) + 1

\* an element, with the invocation that put it there
By(i, x) == [by |-> i, item |-> x]

\* list.append through any reference lands in the first list of the heap
ListAppendShared(h, ref, x) == [h EXCEPT ![1] = Append(@, x)]

\* list.append on the list a reference names
ListAppend(h, ref, x) == [h EXCEPT ![ref] = Append(@, x)]

\* the answers of the model: one tool call, or a valid final payload
ConcBatches ==
    { <<ToolCall("call_c", "fetch_customer_data",
                 Args(PyDict(<< <<"email", S("ann@x")>> >>)))>>,
      <<ToolCall("call_d", "query_knowledge_base",
                 Args(PyDict(<< <<"query", S("refund")>> >>)))>> }

ConcResponses(tk, round) ==
    {Response("stop", PyStr(JsonDumps(Payload(tk.ticket_id, 7, S("pro plan")))),
              <<>>, NoUsage)}
    \cup (IF round < MaxConcRounds
          THEN {Response("tool_calls", PyNone, b, NoUsage) : b \in ConcBatches}
          ELSE {})

\* _kb_store is None; a store object is named by the number of its construction
NoStore == 0

\* the locals of an invocation that has not started
NotStarted(tk) ==
    [ticket |-> tk, pc |-> "start", messages |-> 0, tool_traces |-> 0,
     round_num |-> 0, response |-> NoResponse, store |-> NoStore,
     request |-> NoRequest, returned |-> NoResponse, raised |-> NoException]

ConcInit ==
    /\ LoopInit
    /\ ParseIdle
    /\ MainIdle
    /\ \E tk \in Tickets : inv = <<NotStarted(ticket), NotStarted(tk)>>
    /\ heap = <<>>
    /\ kb_global = NoStore
    /\ kb_writes = <<>>

\* lines 78-88: the two lists of the invocation are created
BeginOf(i) ==
    /\ inv[i].pc = "start"
    /\ LET traces == NewList(heap)
           msgs == NewList(Append(heap, <<>>))
       IN  /\ heap' = heap \o
                 << <<>>,
                    << By(i, [role |-> "system", content |-> <<"system_prompt.txt">>]),
                       By(i, [role |-> "user",
                              content |-> FormatTicket(inv[i].ticket)]) >> >>
           /\ inv' = [inv EXCEPT ![i].pc = "call", ![i].tool_traces = traces,
                                 ![i].messages = msgs]
    /\ UNCHANGED <<kb_global, kb_writes>>

\* lines 91-141: the provider is sent the conversation and answers
RequestOf(i) ==
    /\ inv[i].pc = "call"
    /\ \E resp \in ConcResponses(inv[i].ticket, inv[i].round_num) :
          LET sent == PrimaryRequest(heap[inv[i].messages])
          IN  IF IsFinal(resp)
              THEN LET parsed == ParseResponse(resp.message.content,
                                               inv[i].ticket.ticket_id)
                   IN  /\ inv' = [inv EXCEPT
                              ![i].request = sent,
                              ![i].response = resp,
                              ![i].pc = IF parsed.raises THEN "raised" ELSE "returned",
                              ![i].raised = IF parsed.raises THEN parsed.exc
                                            ELSE NoException,
                              ![i].returned =
                                  IF parsed.raises THEN NoResponse
                                  ELSE [result |-> parsed.value,
                                        tool_traces |-> inv[i].tool_traces,
                                        rounds |-> Rounds(inv[i].round_num)]]
                       /\ heap' = heap
              ELSE /\ inv' = [inv EXCEPT ![i].request = sent, ![i].response = resp,
                                         ![i].pc = "dispatch"]
                   /\ heap' = ListAppend(heap, inv[i].messages, By(i, resp.message))
    /\ UNCHANGED <<kb_global, kb_writes>>

\* the call the invocation dispatches
CallOf(i) == inv[i].response.message.tool_calls[1]

\* lines 159-170 and the end of the round: the trace entry and the tool turn
\* are appended
Appended(i, tool_call, executed) ==
    /\ heap' = ListAppend(
                  ListAppend(heap, inv[i].tool_traces,
                             By(i, ToolTrace(tool_call.name, executed.tool_args,
                                             executed.tool_result))),
                  inv[i].messages, By(i, ToolMessage(tool_call, executed.tool_result)))
    /\ inv' = [inv EXCEPT
                 ![i].round_num = @ + 1,
                 ![i].pc = IF RoundsLeft(inv[i].round_num + 1)
                           THEN "call" ELSE "raised",
                 ![i].raised = IF RoundsLeft(inv[i].round_num + 1)
                               THEN NoException ELSE RoundsExceeded(inv[i].ticket)]

\* lines 143-170 for fetch_customer_data, which reads the loaded data only
DispatchFetchOf(i) ==
    /\ inv[i].pc = "dispatch"
    /\ CallOf(i).name = "fetch_customer_data"
    /\ Appended(i, CallOf(i), ExecuteToolCall(CallOf(i), FALSE).value)
    /\ UNCHANGED <<kb_global, kb_writes>>

\* tools.py:19: query_knowledge_base enters _get_kb_store and tests _kb_store
KbCheckOf(i) ==
    /\ inv[i].pc = "dispatch"
    /\ CallOf(i).name = "query_knowledge_base"
    /\ inv' = [inv EXCEPT ![i].pc = IF kb_global = NoStore THEN "kb_construct"
                                    ELSE "kb_search",
                          ![i].store = kb_global]
    /\ UNCHANGED <<heap, kb_global, kb_writes>>

\* tools.py:20: the store is constructed and assigned to the global
KbConstructOf(i) ==
    /\ inv[i].pc = "kb_construct"
    /\ kb_writes' = Append(kb_writes, i)
    /\ kb_global' = Len(kb_writes')
    /\ inv' = [inv EXCEPT ![i].pc = "kb_search", ![i].store = kb_global']
    /\ UNCHANGED heap

\* tools.py:21, 55-57 and agent.py:159-170: the search on the store
KbSearchOf(i) ==
    /\ inv[i].pc = "kb_search"
    /\ Appended(i, CallOf(i), ExecuteToolCall(CallOf(i), FALSE).value)
    /\ UNCHANGED <<kb_global, kb_writes>>

Begin == (\E i \in Invocations : BeginOf(i)) /\ UNCHANGED <<loopVars, parseVars, mainVars>>
Request == (\E i \in Invocations : RequestOf(i)) /\ UNCHANGED <<loopVars, parseVars, mainVars>>
DispatchFetch ==
    (\E i \in Invocations : DispatchFetchOf(i)) /\ UNCHANGED <<loopVars, parseVars, mainVars>>
KbCheck == (\E i \in Invocations : KbCheckOf(i)) /\ UNCHANGED <<loopVars, parseVars, mainVars>>
KbConstruct ==
    (\E i \in Invocations : KbConstructOf(i)) /\ UNCHANGED <<loopVars, parseVars, mainVars>>
KbSearch == (\E i \in Invocations : KbSearchOf(i)) /\ UNCHANGED <<loopVars, parseVars, mainVars>>

ConcNext == Begin \/ Request \/ DispatchFetch \/ KbCheck \/ KbConstruct \/ KbSearch

ConcSpec == ConcInit /\ [][ConcNext]_vars

(***************************************************************************)
(* main.py: the menu loop of main and _process_and_print.  choices is the  *)
(* history of what the user typed, processed that of the process_ticket    *)
(* calls.                                                                  *)
(***************************************************************************)
\* load_sample_tickets()
TicketList ==
    << CHOOSE tk \in Tickets : tk.ticket_id = "T1",
       CHOOSE tk \in Tickets : tk.ticket_id = "T2" >>

\* what the user can type at the prompt, stripped and upper-cased
Choices == {"Q", "A", "1", "2", "7", "X"}

\* choice.isdigit() and int(choice)
IsDigit(choice) == choice \in {"1", "2", "7"}
IntOf(choice) == IF choice = "1" THEN 1 ELSE IF choice = "2" THEN 2 ELSE 7

\* the outcomes of agent.process_ticket(ticket): an AgentResponse, or one of
\* the exceptions it lets out
ProcessOutcomes(tk) ==
    { Returns([result |-> TriageResultOf(Payload(tk.ticket_id, 7, S("pro plan"))),
               tool_traces |-> <<>>, rounds |-> 1, total_tokens |-> 10,
               prompt_tokens |-> 7, completion_tokens |-> 3]),
      Raises(RoundsExceeded(tk)),
      ParseResponse(PyNone, tk.ticket_id),
      Raises(Exc("APIConnectionError", <<"Connection error.">>)) }

\* a line of the console
Line(kind, text) == [kind |-> kind, text |-> text]

\* lines 264-272: what _process_and_print prints for an outcome
Printed(tk, outcome) ==
    IF outcome.raises
    THEN Line("error", <<"Error processing ", tk.ticket_id, ": ">> \o outcome.exc.text)
    ELSE Line("result", <<" TRIAGE RESULT - ">> \o outcome.value.result.ticket_id)

MainInit ==
    /\ LoopInit
    /\ ParseIdle
    /\ ConcIdle
    /\ main_pc = "menu"
    /\ queue = <<>>
    /\ console = <<>>
    /\ choices = <<>>
    /\ processed = <<>>

\* the prompt is answered by choice
Prompted(choice) ==
    /\ main_pc = "menu"
    /\ Len(choices) < MaxChoices
    /\ choices' = Append(choices, choice)
    /\ UNCHANGED <<processed, loopVars, parseVars, concVars>>

\* lines 250-252
ChooseQuit ==
    /\ Prompted("Q")
    /\ console' = Append(console, Line("plain", <<"Goodbye!">>))
    /\ main_pc' = "done"
    /\ UNCHANGED queue

\* lines 253-255: the for loop over all tickets begins
ChooseAll ==
    /\ Prompted("A")
    /\ queue' = TicketList
    /\ main_pc' = IF TicketList = <<>> THEN "menu" ELSE "loop"
    /\ UNCHANGED console

\* lines 256-257
ChooseOne ==
    \E choice \in Choices :
        /\ IsDigit(choice) /\ 1 <= IntOf(choice) /\ IntOf(choice) <= Len(TicketList)
        /\ Prompted(choice)
        /\ queue' = <<TicketList[IntOf(choice)]>>
        /\ main_pc' = "loop"
        /\ UNCHANGED console

\* lines 258-259
ChooseInvalid ==
    \E choice \in Choices \ {"Q", "A"} :
        /\ ~(IsDigit(choice) /\ 1 <= IntOf(choice) /\ IntOf(choice) <= Len(TicketList))
        /\ Prompted(choice)
        /\ console' = Append(console, Line("error", <<"Invalid choice. Please try again.">>))
        /\ UNCHANGED <<main_pc, queue>>

\* _process_and_print with an except clause that prints and raises again
ProcessAndPrintReraises ==
    /\ main_pc = "loop"
    /\ \E outcome \in ProcessOutcomes(Head(queue)) :
          /\ console' = Append(console, Printed(Head(queue), outcome))
          /\ processed' = Append(processed, [ticket |-> Head(queue).ticket_id,
                                               ok |-> ~outcome.raises])
          /\ queue' = IF outcome.raises THEN <<>> ELSE Tail(queue)
          /\ main_pc' = IF outcome.raises THEN "done"
                        ELSE IF queue' = <<>> THEN "menu" ELSE "loop"
    /\ UNCHANGED <<choices, loopVars, parseVars, concVars>>

\* lines 264-272: _process_and_print(agent, ticket) for the next ticket of the
\* loop; an Exception of process_ticket is printed, the function returns and
\* the loop goes on
ProcessAndPrint ==
    /\ main_pc = "loop"
    /\ \E outcome \in ProcessOutcomes(Head(queue)) :
          /\ console' = Append(console, Printed(Head(queue), outcome))
          /\ processed' = Append(processed, [ticket |-> Head(queue).ticket_id,
                                               ok |-> ~outcome.raises])
    /\ queue' = Tail(queue)
    /\ main_pc' = IF queue' = <<>> THEN "menu" ELSE "loop"
    /\ UNCHANGED <<choices, loopVars, parseVars, concVars>>

MainNext == ChooseQuit \/ ChooseAll \/ ChooseOne \/ ChooseInvalid \/ ProcessAndPrint

MainSpec == MainInit /\ [][MainNext]_vars

(***************************************************************************)
(* Observations used by the properties.                                    *)
(***************************************************************************)
Terminal == pc \in {"returned", "raised"}

\* the provider calls that were answered
Answered == {i \in DOMAIN calls : calls[i].outcome = "ok"}

\* an error object: a dict with an "error" key
IsErrorObject(v) == v.t = "dict" /\ "error" \in Keys(v)

\* the result of a call holds the given text under "error"
ErrorIs(v, text) == IsErrorObject(v) /\ Get(v, "error") = PyStr(text)

RECURSIVE SumRequested(_)
\* the tool calls requested by the answers of a call history
SumRequested(log) ==
    IF log = <<>> THEN 0
    ELSE (IF Head(log).outcome = "ok" THEN Head(log).requested ELSE 0)
         + SumRequested(Tail(log))

\* the tool call the loop is about to dispatch
CurrentCall == response.message.tool_calls[call_idx]

\* its argument payload decodes
Decodable(tool_call) == \E v \in JsonValues : JsonDumps(v) = tool_call.arguments

(***************************************************************************)
(* C1.  When the model requests exactly one tool call in every round and   *)
(* never signals completion, the run makes exactly 5 model rounds, fails   *)
(* with the rounds-exceeded error naming the ticket, and the trace         *)
(* returned to the caller holds exactly 5 tool invocations.                *)
(***************************************************************************)
\* every round of the finished run was answered with exactly one tool call
OneCallEveryRound ==
    /\ Terminal
    /\ Answered # {}
    /\ \A i \in DOMAIN calls :
          /\ calls[i].outcome \in {"ok", "rate_limit"}
          /\ calls[i].outcome = "ok" =>
                calls[i].requested = 1 /\ calls[i].finish_reason # "stop"
    /\ calls[Len(calls)].outcome = "ok"

C1_FiveRoundsThenTraceReturned ==
    OneCallEveryRound =>
        /\ Cardinality(Answered) = 5
        /\ raised = RoundsExceeded(ticket)
        /\ \E i \in 1..Len(raised.text) : raised.text[i] = ticket.ticket_id
        /\ returned # NoResponse
        /\ Len(returned.tool_traces) = 5

(***************************************************************************)
(* C2.  The TriageResult of a successful run has the ticket_id of the      *)
(* input ticket, whatever ticket_id the final payload contains.            *)
(***************************************************************************)
C2_ResultHasTicketId ==
    pc = "returned" => returned.result.ticket_id = <<ticket.ticket_id>>

(***************************************************************************)
(* C3.  No requested tool call aborts the run: for an unknown tool name,   *)
(* an undecodable argument payload or arguments that do not match the      *)
(* tool's parameters, a structured error object becomes the result of the  *)
(* call and the loop goes on.                                              *)
(***************************************************************************)
\* the call is malformed: unknown name, undecodable or mismatching arguments
Malformed(tool_call) ==
    \/ tool_call.name \notin TOOL_DISPATCH
    \/ ~Decodable(tool_call)
    \/ JsonLoads(tool_call.arguments).value.t # "dict"
    \/ Keys(JsonLoads(tool_call.arguments).value) # Params(tool_call.name)

\* the step continued the loop: the next call, the next round, or the end of the budget
LoopGoesOn ==
    \/ pc' = "dispatch" /\ call_idx' = call_idx + 1
    \/ pc' = "call_primary" /\ round_num' = round_num + 1
    \/ /\ pc' = "raised" /\ raised' = RoundsExceeded(ticket)
       /\ round_num' = MAX_TOOL_ROUNDS

C3_MalformedCallNeverAborts ==
    [][(pc = "dispatch" /\ Malformed(CurrentCall)) =>
          /\ LoopGoesOn
          /\ Len(tool_traces') = Len(tool_traces) + 1
          /\ IsErrorObject(tool_traces'[Len(tool_traces')].result)]_vars

(***************************************************************************)
(* C4.  A tool-level failure never aborts the loop: an unregistered name,  *)
(* an exception of a registered tool and the not_found object of           *)
(* fetch_customer_data all become the result of the call's ToolTrace       *)
(* entry, are fed back as the tool-result turn, and the loop proceeds to   *)
(* the next call or the next round.                                        *)
(***************************************************************************)
\* what the step must have recorded for the dispatched call when it failed
FailureOf(tool_call, result) ==
    LET args == JsonLoads(tool_call.arguments).value
    IN  IF tool_call.name \notin TOOL_DISPATCH
        THEN ErrorIs(result, <<"Unknown tool: ", tool_call.name>>)
        ELSE IF args.t # "dict" \/ Keys(args) # Params(tool_call.name)
        THEN IsErrorObject(result) /\ Get(result, "error").s[1] = tool_call.name
        ELSE IF tool_call.name = "fetch_customer_data"
        THEN (\A i \in 1..Len(Customers) :
                  Get(Customers[i], "email") # Get(args, "email"))
             => /\ ErrorIs(result, <<"not_found">>)
                /\ Contains(Get(result, "message").s, Get(args, "email").s[1])
        ELSE kb_store' = "None" => ErrorIs(result, <<"knowledge base unavailable">>)

C4_ToolFailureFedBack ==
    [][(pc = "dispatch" /\ Decodable(CurrentCall)) =>
          /\ LoopGoesOn
          /\ tool_traces' = Append(tool_traces, tool_traces'[Len(tool_traces')])
          /\ LET entry == tool_traces'[Len(tool_traces')]
             IN  /\ entry.tool_name = CurrentCall.name
                 /\ FailureOf(CurrentCall, entry.result)
                 /\ messages' = Append(messages,
                        [role |-> "tool", tool_call_id |-> CurrentCall.id,
                         content |-> JsonDumps(entry.result)])]_vars

\* a tool exception, a not_found object and an unknown tool were each fed
\* back in an earlier round and the model is being asked again
C4_Witness ==
    /\ pc = "call_primary"
    /\ \E i \in DOMAIN tool_traces :
          ErrorIs(tool_traces[i].result, <<"knowledge base unavailable">>)
    /\ \E i \in DOMAIN tool_traces : ErrorIs(tool_traces[i].result, <<"not_found">>)
    /\ \E i \in DOMAIN tool_traces :
          ErrorIs(tool_traces[i].result, <<"Unknown tool: ", "delete_account">>)

(***************************************************************************)
(* C5.  Provider fallback lasts for one round only: the secondary provider *)
(* is called in a round only after the primary raised a rate-limit failure *)
(* in that round, with the same conversation and with parallel tool calls  *)
(* disabled, and every following round asks the primary provider first.    *)
(***************************************************************************)
C5_FallbackForOneRound ==
    [][Len(calls') > Len(calls) =>
          LET call == calls'[Len(calls')]
          IN  IF call.provider = "fallback"
              THEN /\ calls # <<>>
                   /\ calls[Len(calls)].provider = "primary"
                   /\ calls[Len(calls)].outcome = "rate_limit"
                   /\ calls[Len(calls)].round = call.round
                   /\ request.provider = "primary"
                   /\ request'.provider = "fallback"
                   /\ request'.messages = request.messages
                   /\ request'.parallel_tool_calls = "False"
              ELSE /\ request'.provider = "primary"
                   /\ request'.messages = messages
                   /\ calls # <<>> => calls[Len(calls)].round < call.round]_vars

\* a round answered by the fallback provider is followed by a round whose
\* first request went to the primary provider
C5_Witness ==
    \E i, j \in DOMAIN calls :
        /\ calls[i].provider = "fallback" /\ calls[i].outcome = "ok"
        /\ j = i + 1
        /\ calls[j].provider = "primary" /\ calls[j].round = calls[i].round + 1

(***************************************************************************)
(* C6.  When the primary provider fails with a rate limit and the          *)
(* secondary provider fails in the same round, the run fails with a        *)
(* composite error naming the original and the fallback failure cause      *)
(* (the message ends with the rate-limit error, the chained cause is the   *)
(* fallback's error), and no further round is attempted.                   *)
(***************************************************************************)
\* text ends with the given suffix
EndsWith(text, suffix) ==
    /\ Len(suffix) <= Len(text)
    /\ SubSeq(text, Len(text) - Len(suffix) + 1, Len(text)) = suffix

C6_BothProvidersFail ==
    \A i \in DOMAIN calls :
        (calls[i].provider = "fallback" /\ calls[i].outcome = "error") =>
            /\ i = Len(calls)
            /\ pc = "raised"
            /\ returned = NoResponse
            /\ raised.type = "RuntimeError"
            /\ calls[i - 1].outcome = "rate_limit"
            /\ calls[i - 1].error.text # <<>>
            /\ EndsWith(raised.text, calls[i - 1].error.text)
            /\ raised.cause = <<calls[i].error>>
            /\ round_num = calls[i].round

\* both providers failed in a round after the first
C6_Witness ==
    /\ pc = "raised"
    /\ calls # <<>>
    /\ calls[Len(calls)].provider = "fallback"
    /\ calls[Len(calls)].outcome = "error"
    /\ calls[Len(calls)].error.type = "APITimeoutError"
    /\ round_num > 0

(***************************************************************************)
(* C7.  In every AgentResponse each of the three token counters is the sum *)
(* over the rounds of the usage reported by the provider that answered the *)
(* round, primary or fallback; a failed call contributes nothing.          *)
(***************************************************************************)
RECURSIVE SumUsage(_, _)
\* the sum of one usage field over the answered calls that report usage
SumUsage(log, field) ==
    IF log = <<>> THEN 0
    ELSE (IF Head(log).outcome = "ok" /\ Head(log).usage # NoUsage
          THEN Head(log).usage[field] ELSE 0)
         + SumUsage(Tail(log), field)

C7_TokenCountersAreSums ==
    pc = "returned" =>
        /\ returned.prompt_tokens = SumUsage(calls, "prompt_tokens")
        /\ returned.completion_tokens = SumUsage(calls, "completion_tokens")
        /\ returned.total_tokens = SumUsage(calls, "total_tokens")

\* a response after three answered rounds, one of them answered by the
\* fallback provider after a failed primary call
C7_Witness ==
    /\ pc = "returned"
    /\ Cardinality(Answered) >= 3
    /\ \E i \in DOMAIN calls : calls[i].outcome = "rate_limit"
    /\ \E i \in Answered : calls[i].provider = "fallback" /\ calls[i].usage # NoUsage
    /\ returned.total_tokens > returned.prompt_tokens + returned.completion_tokens

(***************************************************************************)
(* C8.  A response is treated as the final answer exactly when it signals  *)
(* completion with no pending tool calls; otherwise its tool calls are all *)
(* dispatched and the loop continues, so that no requested tool call is    *)
(* dropped without being dispatched and traced.                            *)
(***************************************************************************)
\* the last response signals completion and has no pending tool calls
Completion ==
    response.finish_reason = "stop" /\ response.message.tool_calls = <<>>

\* the last response went to answer parsing
TreatedAsFinal ==
    \/ pc = "returned"
    \/ pc = "raised" /\ raised.type \in {"ValueError", "ValidationError"}

C8_FinalIffCompletion ==
    /\ TreatedAsFinal => Completion
    /\ pc = "dispatch" => ~Completion
    /\ (Terminal \/ pc = "call_primary") => SumRequested(calls) = Len(tool_traces)

(***************************************************************************)
(* C9.  The rounds value of an AgentResponse is the 1-based index of the   *)
(* round that produced the final answer: 1 <= rounds <= 5, and the         *)
(* rounds - 1 rounds before it each requested tool calls.                  *)
(***************************************************************************)
C9_RoundsIsIndexOfFinalRound ==
    pc = "returned" =>
        /\ returned.rounds \in 1..MAX_TOOL_ROUNDS
        /\ Cardinality(Answered) = returned.rounds
        /\ calls[Len(calls)].outcome = "ok"
        /\ calls[Len(calls)].round = returned.rounds - 1
        /\ \A r \in 0..(returned.rounds - 2) :
              \E i \in Answered : calls[i].round = r /\ calls[i].requested >= 1

\* the final answer came in the last round of the budget
C9_Witness ==
    pc = "returned" /\ returned.rounds = MAX_TOOL_ROUNDS

(***************************************************************************)
(* C10.  In a round that requests tool calls the assistant's turn is       *)
(* appended before any tool result, then for each requested call, in       *)
(* request order, exactly one ToolTrace entry and exactly one tool-result  *)
(* turn tagged with the call's identifier, all before the next request.    *)
(***************************************************************************)
\* the positions of the tool-result turns of the conversation, in order
ToolTurns == {i \in DOMAIN messages : messages[i].role = "tool"}

\* the assistant turn a tool-result turn belongs to
TurnOf(i) ==
    CHOOSE a \in 1..i :
        /\ messages[a].role = "assistant"
        /\ \A k \in (a + 1)..i : messages[k].role = "tool"

C10_ToolTurnsFollowRequestOrder ==
    /\ \A i \in ToolTurns :
          /\ \E a \in 1..i : /\ messages[a].role = "assistant"
                             /\ \A k \in (a + 1)..i : messages[k].role = "tool"
          /\ i - TurnOf(i) <= Len(messages[TurnOf(i)].tool_calls)
          /\ messages[i].tool_call_id = messages[TurnOf(i)].tool_calls[i - TurnOf(i)].id
          /\ LET n == Cardinality({k \in ToolTurns : k <= i})
             IN  /\ n <= Len(tool_traces)
                 /\ tool_traces[n].tool_name
                       = messages[TurnOf(i)].tool_calls[i - TurnOf(i)].name
                 /\ messages[i].content = JsonDumps(tool_traces[n].result)
    /\ Len(tool_traces) = Cardinality(ToolTurns)
    /\ (pc \in {"call_primary", "call_fallback"} \/ raised = RoundsExceeded(ticket)) =>
          \A a \in DOMAIN messages : messages[a].role = "assistant" =>
              /\ a + Len(messages[a].tool_calls) <= Len(messages)
              /\ \A k \in 1..Len(messages[a].tool_calls) : messages[a + k].role = "tool"
              /\ \/ a + Len(messages[a].tool_calls) = Len(messages)
                 \/ messages[a + Len(messages[a].tool_calls) + 1].role = "assistant"

\* the next request is due after a round of two tool calls and a round of one
C10_Witness ==
    /\ pc = "call_primary"
    /\ round_num = 2
    /\ Len(tool_traces) = 4
    /\ messages[Len(messages)].role = "tool"
    /\ messages[Len(messages)].tool_call_id = "call_d"

(***************************************************************************)
(* Answer parsing: _parse_response.                                        *)
(***************************************************************************)
\* the content was parsed
Parsed == parse_out # NotParsed

\* the content is absent, empty, or whitespace only
IsBlank(content) ==
    content.t = "None" \/ \A i \in 1..Len(content.s) : content.s[i] \in Whitespace

EmptyResponseError(ticket_id) ==
    Raises(Exc("ValueError", <<"Empty response from LLM for ticket ", ticket_id>>))

\* C11: parsing a content that is absent, empty or blank (whitespace only)
\* fails with the empty-response error, and nothing is decoded (no decode
\* failure is logged).
C11_BlankIsEmptyResponse ==
    (Parsed /\ IsBlank(parse_in))
        => /\ parse_out = EmptyResponseError(ticket.ticket_id)
           /\ logs = <<>>

(***************************************************************************)
(* Schema validation of the final payload.                                 *)
(***************************************************************************)
\* the fields every payload must have
RequiredTop == {"ticket_id", "analysis", "action", "customer_context"}
RequiredAnalysis ==
    {"urgency", "sentiment", "issue_type", "product_area", "language", "summary"}
RequiredAction == {"action", "suggested_reply", "reason", "priority_score"}

\* the nested dict of a payload, or an empty one
Sub(p, k) == IF k \in Keys(p) /\ Get(p, k).t = "dict" THEN Get(p, k) ELSE PyDict(<<>>)

MissingRequired(p) ==
    \/ ~(RequiredTop \subseteq Keys(p))
    \/ ~(RequiredAnalysis \subseteq Keys(Sub(p, "analysis")))
    \/ ~(RequiredAction \subseteq Keys(Sub(p, "action")))

\* the field is present with a value outside the declared set
Outside(d, k, allowed) == k \in Keys(d) /\ Get(d, k) \notin {S(v) : v \in allowed}

EnumOutside(p) ==
    \/ Outside(Sub(p, "analysis"), "urgency", {"critical", "high", "medium", "low"})
    \/ Outside(Sub(p, "analysis"), "sentiment",
               {"angry", "frustrated", "neutral", "positive"})
    \/ Outside(Sub(p, "action"), "action",
               {"auto_respond", "route_to_specialist", "escalate_to_human"})

ScoreOutside(p) ==
    /\ "priority_score" \in Keys(Sub(p, "action"))
    /\ Get(Sub(p, "action"), "priority_score") \notin {PyInt(n) : n \in 1..10}

BreaksSchema(p) == MissingRequired(p) \/ EnumOutside(p) \/ ScoreOutside(p)

\* the last response was handed to answer parsing and its content decodes
FinalDecodes ==
    /\ Terminal
    /\ response # NoResponse
    /\ IsFinal(response)
    /\ response.message.content.t = "str"
    /\ response.message.content.s # <<>>
    /\ \E v \in JsonValues : JsonTexts[v] = StripFences(response.message.content.s)

FinalPayload ==
    CHOOSE v \in JsonValues : JsonTexts[v] = StripFences(response.message.content.s)

\* C12: process_ticket returns an AgentResponse only when the final payload
\* passed schema validation: a payload with priority_score outside [1,10], an
\* enum field outside its declared set or a missing required field fails
\* validation, the run fails, and nothing is returned; a returned result holds
\* every field of its payload.
C12_ReturnsOnlyValidated ==
    /\ pc = "returned"
         => /\ FinalDecodes
            /\ ~BreaksSchema(FinalPayload)
            /\ returned # NoResponse
            /\ returned.result = TriageResultOf(FinalPayload)
    /\ (FinalDecodes /\ BreaksSchema(FinalPayload))
         => /\ pc = "raised"
            /\ raised.type = "ValidationError"
            /\ returned = NoResponse

\* validation failed after a round that collected trace entries
C12_Witness ==
    /\ FinalDecodes
    /\ MissingRequired(FinalPayload)
    /\ pc = "raised"
    /\ raised.type = "ValidationError"
    /\ tool_traces # <<>>

(***************************************************************************)
(* The messages of the fatal outcomes.                                     *)
(***************************************************************************)
\* the run ended in one of the fatal outcomes process_ticket raises itself:
\* both providers failed, round budget exceeded, empty or malformed final
\* answer, schema validation failure
FatalOutcome ==
    pc = "raised" /\ raised.type \in {"RuntimeError", "ValueError", "ValidationError"}

\* C13: the message of every fatal outcome of process_ticket names the
\* ticket, next to the text of its cause.
C13_FatalMessageNamesTicket ==
    FatalOutcome
        => /\ Contains(raised.text, ticket.ticket_id)
           /\ \E i \in DOMAIN raised.text : raised.text[i] # ticket.ticket_id

(***************************************************************************)
(* The malformed-payload error.                                            *)
(***************************************************************************)
\* the text occurs in the other as a run of consecutive tokens
Within(part, text) ==
    \E i \in 1..Len(text) - Len(part) + 1 : SubSeq(text, i, i + Len(part) - 1) = part

\* the content has text and, trimmed of blanks and fences, is no JSON text
Undecodable(content) ==
    /\ content.t = "str"
    /\ content.s # <<>>
    /\ \A v \in JsonValues : JsonTexts[v] # Squeeze(StripFences(content.s))

\* parsing failed with the malformed-payload error
MalformedPayloadError(out) ==
    /\ out.raises
    /\ out.exc.type = "ValueError"
    /\ Len(out.exc.text) >= 3
    /\ SubSeq(out.exc.text, 1, 3)
         = <<"LLM returned invalid JSON for ticket ", ticket.ticket_id, ": ">>

\* C14 as stated: the malformed-payload error carries the underlying decode
\* error and the raw content of the final turn.
C14_ErrorCarriesRawContent ==
    (Parsed /\ Undecodable(parse_in))
        => /\ MalformedPayloadError(parse_out)
           /\ EndsWith(parse_out.exc.text, <<"Expecting value">>)
           /\ Within(parse_in.s, parse_out.exc.text)

\* C14 amended: when the trimmed content is not decodable, parsing fails with
\* a malformed-payload error whose message is the ticket id followed by the
\* text of the decode error and nothing else; the raw content of the final
\* turn is not carried by the error but written, whole, to the error log.
C14_DecodeErrorRaisedRawContentLogged ==
    /\ (Parsed /\ Undecodable(parse_in))
         => /\ MalformedPayloadError(parse_out)
            /\ SubSeq(parse_out.exc.text, 4, Len(parse_out.exc.text))
                 = <<"Expecting value">>
            /\ logs # <<>>
            /\ logs[Len(logs)]
                 = LogRecord("error", <<"Raw response:", "\n">> \o parse_in.s)
    /\ (Parsed /\ ~Undecodable(parse_in))
         => ~MalformedPayloadError(parse_out) /\ logs = <<>>

\* a fenced text that is no JSON was parsed
C14_Witness ==
    /\ Parsed
    /\ Undecodable(parse_in)
    /\ Contains(parse_in.s, Fence)
    /\ Contains(parse_in.s, "cannot")
    /\ MalformedPayloadError(parse_out)

(***************************************************************************)
(* Fenced final answers.                                                   *)
(***************************************************************************)
\* the content is its payload between an opening fence line and a closing
\* fence marker
Fenced ==
    /\ parse_in.t = "str"
    /\ \E op \in Openers, cl \in Closers : parse_in.s = op \o parse_ref.s \o cl

\* both the content and the payload it wraps were parsed
BothParsed == Parsed /\ ref_out # NotParsed

\* C19: parsing a payload wrapped in a code fence yields the outcome of
\* parsing the payload alone: the same TriageResult or the same failure.
C19_FencedParsesAsUnwrapped ==
    (BothParsed /\ Fenced) => parse_out = ref_out

\* a fenced multi-line payload with a fence marker inside a string parsed to
\* a TriageResult
C19_Witness ==
    /\ BothParsed
    /\ Fenced
    /\ Contains(parse_ref.s, Fence)
    /\ Contains(parse_ref.s, "\n")
    /\ ~parse_out.raises
    /\ parse_out.value.customer_context = <<"see", " ", Fence, " ", Fence>>

(***************************************************************************)
(* The conversation of one run.                                            *)
(***************************************************************************)
IsPrefix(s, t) == Len(s) <= Len(t) /\ SubSeq(t, 1, Len(s)) = s

\* the system instruction, then one user turn with the formatted ticket
FirstTurns ==
    << [role |-> "system", content |-> <<"system_prompt.txt">>],
       [role |-> "user", content |-> FormatTicket(ticket)] >>

\* a request is sent in this step
Requests == request' # request \/ Len(calls') > Len(calls)

\* C18: the conversation starts with exactly two turns, the system
\* instruction and the user turn with the formatted ticket, and only grows:
\* every request is sent the whole conversation, the first one these two
\* turns, and each request's conversation extends that of the request before.
C18_ConversationOnlyGrows ==
    [][ /\ IsPrefix(messages, messages')
        /\ IsPrefix(FirstTurns, messages) /\ IsPrefix(FirstTurns', messages')
        /\ Requests
             => /\ request'.messages = messages
                /\ request = NoRequest => request'.messages = FirstTurns
                /\ request # NoRequest
                     => IsPrefix(request.messages, request'.messages) ]_vars

\* a request of a later round, sent more than the first two turns
C18_Witness ==
    /\ request # NoRequest
    /\ round_num >= 2
    /\ Len(request.messages) > 4
    /\ IsPrefix(FirstTurns, request.messages)

(***************************************************************************)
(* Failures of the primary provider other than a rate limit.               *)
(***************************************************************************)
\* the calls the primary provider failed without a rate limit
PrimaryErrors ==
    {i \in DOMAIN calls : calls[i].provider = "primary" /\ calls[i].outcome = "error"}

\* C20: a failure of the primary provider that is no rate limit is the last
\* provider call of the run: no fallback call in its round, no further round,
\* and the run ends raising that very error, returning nothing.
C20_PrimaryErrorPropagates ==
    \A i \in PrimaryErrors :
        /\ i = Len(calls)
        /\ \A j \in DOMAIN calls :
               calls[j].round = calls[i].round => calls[j].provider = "primary"
        /\ request.provider = "primary"
        /\ round_num = calls[i].round
        /\ pc = "raised"
        /\ raised = calls[i].error
        /\ raised.type \notin {"RateLimitError", "RuntimeError"}
        /\ returned = NoResponse

\* the primary provider failed in a later round, after a round that fell back
C20_Witness ==
    /\ PrimaryErrors # {}
    /\ round_num >= 1
    /\ \E j \in DOMAIN calls : calls[j].provider = "fallback"
    /\ pc = "raised"

(***************************************************************************)
(* Invocations side by side.                                               *)
(***************************************************************************)
\* every element of the list was put there by invocation i
AllBy(i, list) == \A k \in DOMAIN list : list[k].by = i

Started(i) == inv[i].pc # "start"

\* the tool turns of a conversation
ToolTurnsOf(list) == {k \in DOMAIN list : list[k].item.role = "tool"}

\* C15: each of two invocations, on the same ticket or on different ones,
\* interleaved in any way, owns its conversation and its trace list: the two
\* share no list, every turn of the conversation an invocation sends to the
\* model and every entry of the trace it returns was produced by itself, and
\* the conversation begins with its own ticket.
C15_InvocationsAreIsolated ==
    /\ \A i \in DOMAIN inv :
          Started(i)
            => /\ AllBy(i, heap[inv[i].messages])
               /\ AllBy(i, heap[inv[i].tool_traces])
               /\ heap[inv[i].messages][2].item.content = FormatTicket(inv[i].ticket)
               /\ Len(heap[inv[i].tool_traces]) = inv[i].round_num
               /\ Cardinality(ToolTurnsOf(heap[inv[i].messages])) = inv[i].round_num
               /\ inv[i].request # NoRequest => AllBy(i, inv[i].request.messages)
               /\ inv[i].pc = "returned"
                    => /\ inv[i].returned.tool_traces = inv[i].tool_traces
                       /\ inv[i].returned.rounds = inv[i].round_num + 1
    /\ \A i, j \in DOMAIN inv :
          (i # j /\ Started(i) /\ Started(j))
            => {inv[i].messages, inv[i].tool_traces}
               \cap {inv[j].messages, inv[j].tool_traces} = {}

\* both invocations, on the same ticket, returned with traces of different
\* lengths; the second was the first to begin
C15_Witness ==
    /\ inv # <<>>
    /\ inv[1].ticket = inv[2].ticket
    /\ inv[1].pc = "returned" /\ inv[2].pc = "returned"
    /\ inv[1].round_num = 2 /\ inv[2].round_num = 1
    /\ inv[2].messages < inv[1].messages

\* C16: invocations side by side write no process-wide variable: the
\* knowledge-base store is constructed, and the global naming it assigned,
\* at most once.
C16_StoreConstructedOnce ==
    Len(kb_writes) <= 1

(***************************************************************************)
(* The caller's loop.                                                      *)
(***************************************************************************)
RECURSIVE Expected(_)
\* the tickets the choices ask to process, in order
Expected(typed) ==
    IF typed = <<>> THEN <<>>
    ELSE LET choice == typed[Len(typed)]
             before == Expected(SubSeq(typed, 1, Len(typed) - 1))
         IN  IF choice = "A"
             THEN before \o [k \in 1..Len(TicketList) |-> TicketList[k].ticket_id]
             ELSE IF choice \in {"1", "2"} THEN before \o <<TicketList[IntOf(choice)].ticket_id>>
             ELSE before

\* the lines _process_and_print printed
TicketLines ==
    LET at == {k \in DOMAIN console :
                 \/ console[k].kind = "result"
                 \/ console[k].kind = "error" /\ console[k].text[1] = "Error processing "}
        nth(n) == CHOOSE k \in at : Cardinality({j \in at : j <= k}) = n
    IN  [n \in 1..Cardinality(at) |-> console[nth(n)]]

\* C17: a fatal failure of one ticket aborts that ticket only: the tickets
\* processed so far and those still queued are, in order, all the tickets the
\* user chose, whatever failed; each processed ticket printed one line, an
\* error line naming the ticket when it failed, a result when it succeeded.
C17_FailureAbortsOneTicket ==
    /\ [k \in DOMAIN processed |-> processed[k].ticket]
         \o [k \in DOMAIN queue |-> queue[k].ticket_id] = Expected(choices)
    /\ main_pc = "loop" <=> queue # <<>>
    /\ Len(TicketLines) = Len(processed)
    /\ \A k \in DOMAIN processed :
          /\ TicketLines[k].kind = "result" <=> processed[k].ok
          /\ ~processed[k].ok => TicketLines[k].text[2] = processed[k].ticket

\* the whole list was processed after its first ticket failed, and the last
\* ticket succeeded
C17_Witness ==
    /\ main_pc = "menu"
    /\ choices = <<"A">>
    /\ Len(processed) = Len(TicketList)
    /\ ~processed[1].ok
    /\ processed[Len(processed)].ok

(***************************************************************************)
(* Termination and the budget of provider calls.                           *)
(***************************************************************************)
\* the calls made to a provider, in all rounds or in one
CallsTo(provider) == {i \in DOMAIN calls : calls[i].provider = provider}
CallsIn(provider, round) == {i \in CallsTo(provider) : calls[i].round = round}

\* at most 5 rounds, at most 5 calls to the primary provider, one per round,
\* and at most one call to the secondary provider per round
WithinBudget ==
    /\ round_num <= 5
    /\ \A i \in DOMAIN calls : calls[i].round \in 0..4
    /\ Cardinality(CallsTo("primary")) <= 5
    /\ \A round \in 0..4 :
          /\ Cardinality(CallsIn("primary", round)) <= 1
          /\ Cardinality(CallsIn("fallback", round)) <= 1
    /\ Terminal => (returned # NoResponse) # (raised # NoException)

\* the most tool calls one response requests
MaxBatchLen == CHOOSE n \in 0..8 : /\ \A b \in Batches : Len(b) <= n
                                   /\ \E b \in Batches : Len(b) = n

\* the most steps one round takes: the two provider calls and the dispatches
StepsPerRound == 2 + MaxBatchLen

\* how far the run is into its round
Position ==
    CASE pc = "call_primary" -> 0
      [] pc = "call_fallback" -> 1
      [] pc = "dispatch" -> 1 + call_idx
      [] OTHER -> 0

\* the run can take a step: the awaited provider call can end (at the least
\* by raising), the dispatch has its tool call
CanStep ==
    CASE pc = "call_primary" -> ENABLED PrimaryFails
      [] pc = "call_fallback" -> ENABLED FallbackFails
      [] pc = "dispatch" -> call_idx \in DOMAIN response.message.tool_calls
      [] OTHER -> FALSE

\* an upper bound of the steps the run can still take
StepsLeft == IF Terminal THEN 0 ELSE (5 - round_num) * StepsPerRound - Position

\* C21: when every provider call and every tool call returns or raises,
\* process_ticket reaches a terminal outcome, an AgentResponse or a failure,
\* within 5 rounds, 5 calls to the primary provider and one call to the
\* secondary provider per round: a run that has not ended can always take a
\* step, and every step lowers a bound of the steps that are left.
C21_TerminatesWithinBudget ==
    /\ [](WithinBudget /\ StepsLeft >= 0 /\ (~Terminal => CanStep))
    /\ [][StepsLeft' < StepsLeft]_vars

\* the budget was used up: five rounds, five primary calls, one of them
\* rate-limited and answered by the secondary provider
C21_Witness ==
    /\ pc = "raised"
    /\ raised = RoundsExceeded(ticket)
    /\ round_num = 5
    /\ Cardinality(CallsTo("primary")) = 5
    /\ Cardinality(CallsTo("fallback")) = 1

(***************************************************************************)
(* The conversation and the trace between rounds.                          *)
(***************************************************************************)
\* the run is between rounds: about to call a provider, or ended by the
\* final answer, by a provider failure or by the round budget
BetweenRounds ==
    \/ pc \in {"call_primary", "call_fallback"}
    \/ pc = "returned"
    \/ pc = "raised" /\ calls # <<>> /\ calls[Len(calls)].outcome = "error"
    \/ pc = "raised" /\ raised = RoundsExceeded(ticket)

\* the answered calls whose tool calls were dispatched
ToolRounds ==
    {i \in Answered : calls[i].finish_reason # "stop" /\ calls[i].requested > 0}

\* the position of the n-th tool-result turn
NthToolTurn(n) ==
    CHOOSE k \in ToolTurns : Cardinality({j \in ToolTurns : j <= k}) = n

\* C22: between rounds the conversation has one tool-result turn per trace
\* entry, the i-th turn with the JSON text of the i-th entry's result, and
\* its length is 2 plus the completed tool-requesting rounds plus the trace
\* entries.
C22_TurnsMatchTrace ==
    BetweenRounds
        => /\ Cardinality(ToolTurns) = Len(tool_traces)
           /\ \A n \in DOMAIN tool_traces :
                 messages[NthToolTurn(n)].content = JsonDumps(tool_traces[n].result)
           /\ Len(messages) = 2 + Cardinality(ToolRounds) + Len(tool_traces)

\* three rounds of tool calls are done, of one and of three calls
C22_Witness ==
    /\ pc = "call_primary"
    /\ Cardinality(ToolRounds) = 3
    /\ Len(tool_traces) = 7
    /\ Len(messages) = 12

(***************************************************************************)
(* The round of the final answer.                                          *)
(***************************************************************************)
\* the step that takes a provider's response to answer parsing
FinalRound ==
    /\ pc \in {"call_primary", "call_fallback"}
    /\ Len(calls') = Len(calls) + 1
    /\ calls'[Len(calls')].outcome = "ok"
    /\ pc' = "returned" \/ (pc' = "raised" /\ IsFinal(response'))

\* the provider calls of the rounds whose tool calls were dispatched
EarlierRounds ==
    SelectSeq(calls, LAMBDA c : c.outcome = "ok" /\ c.finish_reason # "stop"
                                                /\ c.requested > 0)

\* C23: the round that produces the final answer appends no turn, adds no
\* trace entry and dispatches no tool, and the returned trace is the trace of
\* the earlier rounds, one entry per tool call they requested.
C23_FinalRoundLeavesConversation ==
    /\ [][FinalRound => /\ messages' = messages
                        /\ tool_traces' = tool_traces
                        /\ kb_store' = kb_store
                        /\ pc' = "returned" => returned'.tool_traces = tool_traces]_vars
    /\ [](pc = "returned"
            => /\ returned.tool_traces = tool_traces
               /\ Len(returned.tool_traces) = SumRequested(EarlierRounds)
               /\ messages[Len(messages)].role \in {"user", "tool"})

\* the final answer follows two rounds of tool calls
C23_Witness ==
    /\ pc = "returned"
    /\ round_num = 2
    /\ Len(returned.tool_traces) = 4
    /\ Len(messages) = 8


====
